---- MODULE Spec2Model ----
(***************************************************************************)
(* Model of src/main.py: the recording session store, the threshold-driven *)
(* transcription pipeline, session finalisation and the websocket          *)
(* broadcast, as run by one asyncio event loop.                            *)
(*                                                                         *)
(* Scheduling.  Every handler is a coroutine on one event loop, so a       *)
(* handler runs without interruption until it really suspends.  The only   *)
(* awaits of the request handlers that reach the loop are the              *)
(* `await ws.send_json(...)` of broadcast_status (line 241); the calls to  *)
(* wave and to openai are synchronous.  An action is therefore one run of  *)
(* a coroutine from the arrival of its request, or from the completion of  *)
(* the send it was suspended in, to its next send or to its end: Run       *)
(* composes the steps of the code in between.                              *)
(*                                                                         *)
(* Bytes.  A buffer is the sequence of the decoded chunks appended to it;  *)
(* a decoded chunk is [src, len]: which payload it came from and how many  *)
(* bytes it has.  The length of a buffer is the sum of the chunk lengths.  *)
(***************************************************************************)
EXTENDS Integers, Sequences, FiniteSets, TLC

\* ---------------------------------------------------------------- constants
SAMPLE_RATE == 16000
CHANNELS == 1
SAMPLE_WIDTH == 2
TRANSCRIPTION_CHUNK_SIZE == SAMPLE_RATE * 2 * 3

\* Python's None (current_recording_id, end_time)
None == 0

\* ------------------------------------------------------------------- bounds
\* what the clients do in one behaviour: HTTP requests issued plus websocket
\* connections opened
MaxOps == 4

\* the stores list_recordings is applied to: at most MaxList sessions, started
\* at times 1 .. MaxTime (the wall clock can repeat itself or step back)
MaxList == 3
MaxTime == 3

\* the websockets: each client operation can be a connection, so neither the
\* number of subscribers nor the number of sessions or of requests in progress
\* is bounded separately
Sockets == 1 .. MaxOps

\* request bodies {"audio": <base64 text>}: the text has `chars` characters,
\* the last `pad` of them '='.  Every request carries 48,000 bytes of its own
\* (half the threshold), told apart by the number n of the request.
PayloadOf(n) == [tag |-> n, chars |-> 64000, pad |-> 0]

NoPayload == [tag |-> 0, chars |-> 0, pad |-> 0]

\* ------------------------------------------------------------ pure helpers
\* base64.b64decode: four characters carry three bytes, less the padding
b64decode(p) == [src |-> p.tag, len |-> (p.chars \div 4) * 3 - p.pad]

RECURSIVE BufLen(_)
\* len(bytearray): the number of bytes of a buffer
BufLen(buf) == IF buf = << >> THEN 0 ELSE Head(buf).len + BufLen(Tail(buf))

\* bytearray.extend
Extend(buf, chunk) == Append(buf, chunk)

\* the threshold test with > for >=
BufferFull_Strict(buf) == BufLen(buf) > TRANSCRIPTION_CHUNK_SIZE

\* line 114: the threshold test of receive_audio
BufferFull(buf) == BufLen(buf) >= TRANSCRIPTION_CHUNK_SIZE

\* the flush test taken for the threshold test of line 114
HasRemaining_Threshold(buf) == BufLen(buf) >= TRANSCRIPTION_CHUNK_SIZE

\* line 72: the flush test of stop_recording
HasRemaining(buf) == BufLen(buf) > 0

\* no file name: a missing "filename", no temp_file
NoFile == << >>

\* the final WAV files on disk: a set of [name, frames]; writing replaces
WriteFile(fs, name, frames) ==
    { f \in fs : f.name # name } \cup {[name |-> name, frames |-> frames]}

\* line 76: f"recording_{current_recording_id[:8]}.wav".  Session ids are the
\* uuid4 values in order of creation; two of them sharing their first eight
\* hex digits is, like two equal uuid4 values, not modelled.
FinalFileName(id) == << "recording", id >>

\* line 138: f"temp_{recording_id}_{datetime.now().timestamp()}.wav"
TempFileName(id, ts) == << "temp", id, ts >>

\* lines 42-49: the dictionary of a new session ("filename" is absent)
NewRecording(now) ==
    [ audio_data |-> << >>,
      transcription_buffer |-> << >>,
      transcripts |-> << >>,
      start_time |-> now,
      end_time |-> None,
      status |-> "recording",
      filename |-> NoFile ]

\* ------------------------------------------------------------------- state
VARIABLES
    recordings,            \* line 28: id -> session dictionary
    current_recording_id,  \* line 29
    active_websockets,     \* line 30
    files,                 \* the final WAV files on disk
    temp_files,            \* the temporary WAV files on disk
    clock,                 \* datetime.now()
    task,                  \* the HTTP request coroutines in progress (a set)
    last,                  \* the request that finished most recently
    sock,                  \* the websocket_endpoint coroutines
    client,                \* client[w]: the peer of w is not known to be gone
    nreq,                  \* requests issued and connections opened so far
    appended,              \* id -> chunks appended by receive_audio, in order
    attempts,              \* id -> transcription attempts started for it
    finalized              \* sessions whose stop_recording has returned ok

vars == << recordings, current_recording_id, active_websockets, files,
           temp_files, clock, task, last, sock, client, nreq,
           appended, attempts, finalized >>

\* ------------------------------------------------------------- task records
NoMsg == [type |-> "", recording_id |-> None]

NoBc == [used |-> 0, init |-> {}, seen |-> {}, disc |-> {}, ws |-> None,
         msg |-> NoMsg]

NoResp == [ok |-> FALSE, recording_id |-> None, error |-> ""]

OkResp(id) == [ok |-> TRUE, recording_id |-> id, error |-> ""]

\* answering ok to a stop that had nothing to stop
NoActiveResp_Ok == [ok |-> TRUE, recording_id |-> None, error |-> ""]

\* line 65
NoActiveResp == [ok |-> FALSE, recording_id |-> None,
                 error |-> "No active recording"]

\* an exception that leaves the handler: the framework answers 500
ErrorResp == [ok |-> FALSE, recording_id |-> None,
              error |-> "Internal Server Error"]

IdleTask ==
    [ kind |-> "none",      \* "start", "stop", "audio", "list"
      pc |-> "idle",
      site |-> "none",      \* which call of broadcast_status is in progress
      rec |-> None,         \* the id of the dictionary bound to `recording`
      rid |-> None,         \* recording_id of start_recording/transcribe_chunk
      payload |-> NoPayload,
      temp |-> NoFile,      \* temp_file of transcribe_chunk
      bc |-> NoBc,          \* the iteration of broadcast_status
      resp |-> NoResp,
      listing |-> << >>,    \* the list list_recordings returns
      \* history of the request, for the properties
      n |-> 0,              \* the number of the request among the operations
      entry |-> None,       \* current_recording_id when the request began
      raises |-> 0,         \* its broadcasts that ended with RuntimeError
      created |-> None,     \* session created by this request's start
      at106 |-> << >>,      \* << current_recording_id read at line 106 >>
      pending0 |-> << >>,   \* transcription_buffer as stop, or line 111, found it
      lenAfter |-> None,    \* len(transcription_buffer) after line 111
      tries |-> 0,          \* transcription attempts made by this request
      status0 |-> "",       \* status of the session when its attempt began
      tr0 |-> 0,            \* len(transcripts) when its attempt began
      added |-> 0,          \* transcripts its attempt appended (line 160)
      buf0 |-> << >>,       \* transcription_buffer when its attempt began
      ended |-> FALSE,      \* its attempt has ended
      tr1 |-> 0,            \* len(transcripts) when its attempt ended
      buf1 |-> << >>,       \* transcription_buffer when its attempt ended
      wtried |-> FALSE,     \* stop_recording has called wave.open (line 77)
      wrote |-> NoFile,     \* name of the file stop_recording wrote
      wroteOf |-> None,     \* session whose audio_data went into it
      stopmsg |-> None,     \* recording_id of the recording_stopped event
      endcur |-> None ]     \* current_recording_id when the request ended

Init ==
    /\ recordings = << >>
    /\ current_recording_id = None
    /\ active_websockets = {}
    /\ files = {}
    /\ temp_files = {}
    /\ clock = 1
    /\ task = {}
    /\ last = IdleTask
    /\ sock = [w \in Sockets |-> "idle"]
    /\ client = [w \in Sockets |-> TRUE]
    /\ nreq = 0
    /\ appended = << >>
    /\ attempts = << >>
    /\ finalized = {}

\* ------------------------------------------------------------ configurations
\* the globals together with the coroutine tk that is running on the loop
Here(tk) ==
    [ recordings |-> recordings,
      current_recording_id |-> current_recording_id,
      active_websockets |-> active_websockets,
      files |-> files,
      temp_files |-> temp_files,
      clock |-> clock,
      appended |-> appended,
      attempts |-> attempts,
      finalized |-> finalized,
      tk |-> tk ]

\* a request starts from fresh locals
Fresh(k) == [IdleTask EXCEPT !.kind = k, !.pc = k, !.n = nreq + 1,
                             !.entry = current_recording_id]

\* the handler returns r (or an exception leaves it)
Done(c, r) ==
    [c.tk EXCEPT !.pc = "done", !.resp = r, !.bc = NoBc, !.site = "none",
                 !.temp = NoFile, !.endcur = c.current_recording_id]

Return(c, r) == [c EXCEPT !.tk = Done(c, r)]

Goto(c, label) == [c EXCEPT !.tk.pc = label]

\* where broadcast_status returns to
AfterBroadcast(tk) ==
    CASE tk.site = "start" /\ tk.kind = "start" -> "start_ret"
      [] tk.site = "start" /\ tk.kind = "audio" -> "audio_append"
      [] tk.site = "tr" -> "tr_clear"
      [] tk.site = "audio" -> "audio_ret"
      [] tk.site = "stop" -> "stop_ret"

\* where transcribe_chunk returns to: line 118 or line 76
AfterTranscribe(tk) == IF tk.kind = "audio" THEN "audio_bcast" ELSE "stop_write"

\* ------------------------------------------------------- broadcast_status
\* lines 238-239: disconnected = set(); the iterator over active_websockets
BcStart(aw, m) ==
    [ used |-> Cardinality(aw), init |-> aw,
      seen |-> {}, disc |-> {}, ws |-> None, msg |-> m ]

\* the call broadcast_status(m) made at `site`
Broadcast(c, s, m) ==
    [c EXCEPT !.tk.pc = "bc_next", !.tk.site = s,
              !.tk.bc = BcStart(c.active_websockets, m)]

\* leaving every failed socket in the set
Prune_Nothing(aw, disconnected) == aw

\* lines 245-246: every socket whose send raised is discarded
Prune(aw, disconnected) == aw \ disconnected

\* line 239, one call of next() on the set iterator: CPython raises
\* RuntimeError when the set's size differs from its size at the creation of
\* the iterator; otherwise the iteration ends (lines 245-246 prune) or the next
\* socket is sent to and the coroutine suspends in `await ws.send_json`.
\* A socket added during the iteration (with one removed, so that the size is
\* the same) may or may not be visited.
BcNext(c) ==
    LET tk == c.tk
        b == tk.bc
        aw == c.active_websockets
        must == (b.init \ b.seen) \cap aw
        extra == (aw \ b.seen) \ b.init
    IN IF Cardinality(aw) # b.used
       THEN \* RuntimeError: Set changed size during iteration
            LET raised == [c EXCEPT !.tk.raises = @ + 1]
            IN IF tk.site = "tr"
               THEN {Goto(raised, "tr_except")}
               ELSE {Return(raised, ErrorResp)}
       ELSE { [c EXCEPT !.tk.pc = "bc_send", !.tk.bc.ws = w,
                        !.tk.bc.seen = b.seen \cup {w}] : w \in must \cup extra }
            \cup
            ( IF must = {}
              THEN { [c EXCEPT !.active_websockets = Prune(aw, b.disc),
                               !.tk.pc = AfterBroadcast(tk)] }
              ELSE {} )

\* -------------------------------------------------------- start_recording
\* lines 39-55 (uuid4 values are taken in order)
CreateSession(c) ==
    LET id == Len(c.recordings) + 1
        m == [type |-> "recording_started", recording_id |-> id]
    IN { Broadcast([c EXCEPT !.recordings = Append(@, NewRecording(c.clock)),
                             !.current_recording_id = id,
                             !.clock = @ + 1,
                             !.appended = Append(@, << >>),
                             !.attempts = Append(@, 0),
                             !.tk.rid = id,
                             !.tk.created = id], "start", m) }

\* line 57
StartReturn(c) == {Return(c, OkResp(c.tk.rid))}

\* ------------------------------------------------------- transcribe_chunk
\* what the three fallible calls of one attempt can do: wave.open fails
\* before or after it created the temporary file, the transcription service
\* fails, or all succeed
Outcomes == {"ok", "api_error", "open_error", "write_error"}

\* lines 156-160: the entry stored on success; the service's text is a
\* function of the audio it was given, here that audio itself
TranscriptEntry(buffer, now) == [text |-> buffer, timestamp |-> now]

\* the attempt of request tk is over (history only)
Ended(c) ==
    [c EXCEPT !.tk.ended = TRUE,
              !.tk.tr1 = Len(c.recordings[c.tk.rid].transcripts),
              !.tk.buf1 = c.recordings[c.tk.rid].transcription_buffer]

\* emptying the pending buffer when the transcription has failed
TranscriptionError_Clears(rec) == [rec EXCEPT !.transcription_buffer = << >>]

\* lines 173-174: the except clause prints and leaves the session as it is
TranscriptionError(rec) == rec

\* lines 129-168, entered with `rid` bound by the caller
TranscribeChunk(c) ==
    LET tk == c.tk
        id == tk.rid
        rec == c.recordings[id]
        buffer == rec.transcription_buffer
        temp == TempFileName(id, c.clock)
        m == [type |-> "transcription", recording_id |-> id]
        tried == [c EXCEPT !.attempts[id] = @ + 1,
                           !.clock = @ + 1,
                           !.tk.temp = temp,
                           !.tk.tries = @ + 1,
                           !.tk.status0 = rec.status,
                           !.tk.tr0 = Len(rec.transcripts),
                           !.tk.buf0 = buffer]
    IN IF id \notin DOMAIN c.recordings \/ BufLen(buffer) = 0
       THEN \* lines 130-131, 134-135
            {Goto(c, AfterTranscribe(tk))}
       ELSE { CASE o = "open_error" ->
                     \* line 139: the exception leaves the handler
                     Return(Ended(tried), ErrorResp)
                [] o = "write_error" ->
                     \* lines 139-143: the same, the file stays behind
                     Return(Ended([tried EXCEPT !.temp_files = @ \cup {temp}]),
                            ErrorResp)
                [] o = "api_error" ->
                     \* lines 173-177
                     Goto(Ended([tried EXCEPT
                                    !.recordings[id] = TranscriptionError(@),
                                    !.tk.temp = NoFile]),
                          AfterTranscribe(tk))
                [] o = "ok" ->
                     \* lines 156-168
                     Broadcast([tried EXCEPT
                                   !.recordings[id].transcripts =
                                       Append(@, TranscriptEntry(buffer, c.clock)),
                                   !.tk.added = @ + 1,
                                   !.temp_files = @ \cup {temp}], "tr", m)
              : o \in Outcomes }

\* clearing the whole recording instead of the pending window
ClearBuffer_DropsAudio(rec) ==
    [rec EXCEPT !.transcription_buffer = << >>, !.audio_data = << >>]

\* line 171
ClearBuffer(rec) == [rec EXCEPT !.transcription_buffer = << >>]

\* line 171, then the finally of lines 175-177
TranscribeClear(c) ==
    { Goto(Ended([c EXCEPT !.recordings[c.tk.rid] = ClearBuffer(@),
                           !.temp_files = @ \ {c.tk.temp},
                           !.tk.temp = NoFile]),
           AfterTranscribe(c.tk)) }

\* lines 173-177 when broadcast_status raised inside the try
TranscribeExcept(c) ==
    { Goto(Ended([c EXCEPT !.temp_files = @ \ {c.tk.temp}, !.tk.temp = NoFile]),
           AfterTranscribe(c.tk)) }

\* ---------------------------------------------------------- stop_recording
\* lines 64 and 103: `not current_recording_id`
NoActive(id) == id = None

\* lines 68-69
MarkCompleted(rec, now) == [rec EXCEPT !.end_time = now, !.status = "completed"]

\* lines 64-73
StopEnter(c) ==
    IF NoActive(c.current_recording_id)
    THEN {Return(c, NoActiveResp)}
    ELSE LET id == c.current_recording_id
             buffer == c.recordings[id].transcription_buffer
         IN { [c EXCEPT !.recordings[id] = MarkCompleted(@, c.clock),
                        !.clock = @ + 1,
                        !.tk.rec = id,
                        !.tk.rid = id,
                        !.tk.pending0 = buffer,
                        !.tk.pc = IF HasRemaining(buffer)
                                  THEN "tr_begin" ELSE "stop_write"] }

\* lines 76-90: current_recording_id is read again, `recording` is the
\* dictionary bound at line 67.  wave.open can fail before or after it
\* created the file.
StopWrite(c) ==
    LET tk == c.tk
        id == c.current_recording_id
        filename == FinalFileName(id)
        m == [type |-> "recording_stopped", recording_id |-> id]
        opened == [c EXCEPT !.tk.wtried = TRUE]
    IN IF id = None
       THEN \* line 76: None[:8] raises TypeError
            {Return(c, ErrorResp)}
       ELSE { Broadcast([opened EXCEPT
                  !.files = WriteFile(@, filename,
                                      c.recordings[tk.rec].audio_data),
                  !.recordings[tk.rec].filename = filename,
                  !.tk.wrote = filename,
                  !.tk.wroteOf = tk.rec,
                  !.tk.stopmsg = id], "stop", m),
              Return(opened, ErrorResp),
              Return([opened EXCEPT !.files = WriteFile(@, filename, << >>)],
                     ErrorResp) }

\* lines 92-95
StopReturn(c) ==
    LET stopped_id == c.current_recording_id
    IN { Return([c EXCEPT !.current_recording_id = None,
                          !.finalized = @ \cup {c.tk.rec}], OkResp(stopped_id)) }

\* ----------------------------------------------------------- receive_audio
\* lines 103-104
AudioEnter(c) ==
    IF NoActive(c.current_recording_id)
    THEN CreateSession(c)
    ELSE {Goto(c, "audio_append")}

\* lines 110-111
StoreChunk(rec, chunk) ==
    [rec EXCEPT !.audio_data = Extend(@, chunk),
                !.transcription_buffer = Extend(@, chunk)]

\* lines 106-115
AudioAppend(c) ==
    LET tk == c.tk
        id == c.current_recording_id
        audio_chunk == b64decode(tk.payload)
        read == [c EXCEPT !.tk.at106 = << id >>]
    IN IF id = None
       THEN \* line 106: recordings[None] raises KeyError
            {Return(read, ErrorResp)}
       ELSE LET stored == StoreChunk(c.recordings[id], audio_chunk)
            IN { [read EXCEPT
                    !.recordings[id] = stored,
                    !.appended[id] = Append(@, audio_chunk),
                    !.tk.rec = id,
                    !.tk.rid = id,
                    !.tk.pending0 = c.recordings[id].transcription_buffer,
                    !.tk.lenAfter = BufLen(stored.transcription_buffer),
                    !.tk.pc = IF BufferFull(stored.transcription_buffer)
                              THEN "tr_begin" ELSE "audio_bcast"] }

\* lines 118-123
AudioBroadcast(c) ==
    LET m == [type |-> "audio_update", recording_id |-> c.current_recording_id]
    IN {Broadcast(c, "audio", m)}

\* line 125
AudioReturn(c) == {Return(c, OkResp(None))}

\* ------------------------------------------------------------ the event loop
\* the next piece of code of the running coroutine
Step(c) ==
    CASE c.tk.pc = "start" -> CreateSession(c)
      [] c.tk.pc = "start_ret" -> StartReturn(c)
      [] c.tk.pc = "stop" -> StopEnter(c)
      [] c.tk.pc = "stop_write" -> StopWrite(c)
      [] c.tk.pc = "stop_ret" -> StopReturn(c)
      [] c.tk.pc = "audio" -> AudioEnter(c)
      [] c.tk.pc = "audio_append" -> AudioAppend(c)
      [] c.tk.pc = "audio_bcast" -> AudioBroadcast(c)
      [] c.tk.pc = "audio_ret" -> AudioReturn(c)
      [] c.tk.pc = "tr_begin" -> TranscribeChunk(c)
      [] c.tk.pc = "tr_clear" -> TranscribeClear(c)
      [] c.tk.pc = "tr_except" -> TranscribeExcept(c)
      [] c.tk.pc = "bc_next" -> BcNext(c)

RECURSIVE Run(_)
\* the coroutine runs until it suspends in a send or ends
Run(c) ==
    IF c.tk.pc \in {"bc_send", "done"}
    THEN {c}
    ELSE UNION { Run(d) : d \in Step(c) }

\* the loop takes the globals back from the coroutine that was tk0
Install(tk0, c) ==
    /\ recordings' = c.recordings
    /\ current_recording_id' = c.current_recording_id
    /\ active_websockets' = c.active_websockets
    /\ files' = c.files
    /\ temp_files' = c.temp_files
    /\ clock' = c.clock
    /\ appended' = c.appended
    /\ attempts' = c.attempts
    /\ finalized' = c.finalized
    /\ IF c.tk.pc = "done"
       THEN task' = task \ {tk0} /\ last' = c.tk
       ELSE task' = (task \ {tk0}) \cup {c.tk} /\ UNCHANGED last

\* a request arrives and its handler runs to its first suspension
Serve(tk) ==
    /\ nreq' = nreq + 1
    /\ \E c \in Run(Here(tk)) : Install(tk, c)
    /\ UNCHANGED << sock, client >>

\* POST /recording/start
StartBegin ==
    /\ nreq < MaxOps
    /\ Serve(Fresh("start"))

\* POST /recording/stop
StopBegin ==
    /\ nreq < MaxOps
    /\ Serve(Fresh("stop"))

\* POST /audio
AudioBegin ==
    /\ nreq < MaxOps
    /\ Serve([Fresh("audio") EXCEPT !.payload = PayloadOf(nreq + 1)])

\* lines 240-243: the send_json a coroutine was suspended in completes, or
\* raises because the peer is gone (a peer once gone stays gone); the
\* coroutine runs on to its next suspension
BcSendDone ==
    /\ \E tk \in task :
         /\ tk.pc = "bc_send"
         /\ \E ok \in (IF client[tk.bc.ws] THEN BOOLEAN ELSE {FALSE}) :
              /\ client' = [client EXCEPT ![tk.bc.ws] = ok]
              /\ \E c \in Run(Here([tk EXCEPT
                           !.pc = "bc_next",
                           !.bc.disc = IF ok THEN @ ELSE @ \cup {tk.bc.ws}])) :
                     Install(tk, c)
    /\ UNCHANGED << sock, nreq >>

\* ------------------------------------------------------ websocket_endpoint
\* lines 218-230: the socket joins the set and the coroutine then waits, in
\* the send of the greeting or in receive_text, for its peer; connections are
\* numbered in the order they are accepted
WsAccept(w) ==
    /\ nreq < MaxOps
    /\ sock[w] = "idle"
    /\ \A v \in Sockets : v < w => sock[v] # "idle"
    /\ active_websockets' = active_websockets \cup {w}
    /\ sock' = [sock EXCEPT ![w] = "open"]
    /\ nreq' = nreq + 1
    /\ UNCHANGED << recordings, current_recording_id, files, temp_files, clock,
                    appended, attempts, finalized, task, last, client >>

\* lines 231-234: the peer has gone, the send of the greeting or receive_text
\* raises, and set.remove raises KeyError when broadcast_status pruned w
WsClose(w) ==
    /\ sock[w] = "open"
    /\ client' = [client EXCEPT ![w] = FALSE]
    /\ active_websockets' = active_websockets \ {w}
    /\ sock' = [sock EXCEPT ![w] =
           IF w \in active_websockets THEN "closed" ELSE "keyerror"]
    /\ UNCHANGED << recordings, current_recording_id, files, temp_files, clock,
                    appended, attempts, finalized, task, last, nreq >>

\* --------------------------------------------------------- list_recordings
\* lines 184-192: the entry of one session
ListEntry(id, rec) ==
    [ id |-> id,
      start_time |-> rec.start_time,
      end_time |-> rec.end_time,
      status |-> rec.status,
      duration |-> BufLen(rec.audio_data) \div (SAMPLE_WIDTH * SAMPLE_RATE),
      transcripts |-> rec.transcripts,
      filename |-> rec.filename ]

\* sorting oldest first
Precedes_Ascending(a, b) == a.start_time <= b.start_time

\* line 195: key start_time, reverse = True: a stays in front of a later b
Precedes(a, b) == a.start_time >= b.start_time

RECURSIVE Insert(_, _)
\* list.sort is stable: e goes behind every entry that precedes it
Insert(e, sorted) ==
    IF sorted = << >> THEN << e >>
    ELSE IF Precedes(Head(sorted), e)
         THEN << Head(sorted) >> \o Insert(e, Tail(sorted))
         ELSE << e >> \o sorted

RECURSIVE Sort(_)
\* line 195: result.sort(...)
Sort(result) ==
    IF result = << >> THEN << >>
    ELSE Insert(result[Len(result)], Sort(SubSeq(result, 1, Len(result) - 1)))

\* lines 182-196: the dictionary is walked in insertion order
list_recordings(recs) ==
    Sort([i \in DOMAIN recs |-> ListEntry(i, recs[i])])

\* GET /recordings: the handler has no await
ListRecordings ==
    /\ last.kind # "list"
    /\ last' = [IdleTask EXCEPT !.kind = "list", !.pc = "done",
                                !.listing = list_recordings(recordings)]
    /\ UNCHANGED << recordings, current_recording_id, active_websockets, files,
                    temp_files, clock, task, sock, client, nreq, appended,
                    attempts, finalized >>

\* a session that was started at time t and is in the given status
StoredSession(id, t, status) ==
    IF status = "recording"
    THEN NewRecording(t)
    ELSE [MarkCompleted(NewRecording(t), t + 1) EXCEPT
             !.filename = FinalFileName(id)]

\* any store of at most MaxList sessions
Stores ==
    UNION { [1 .. k -> (1 .. MaxTime) \X {"recording", "completed"}]
            : k \in 0 .. MaxList }

InitList ==
    /\ \E st \in Stores :
         recordings = [i \in DOMAIN st |-> StoredSession(i, st[i][1], st[i][2])]
    /\ current_recording_id = None
    /\ active_websockets = {}
    /\ files = {}
    /\ temp_files = {}
    /\ clock = MaxTime + 2
    /\ task = {}
    /\ last = IdleTask
    /\ sock = [w \in Sockets |-> "idle"]
    /\ client = [w \in Sockets |-> TRUE]
    /\ nreq = 0
    /\ appended = [i \in DOMAIN recordings |-> << >>]
    /\ attempts = [i \in DOMAIN recordings |-> 0]
    /\ finalized = {}

NextList == ListRecordings

SpecList == InitList /\ [][NextList]_vars

\* ------------------------------------------------------------ specification
Next ==
    \/ StartBegin
    \/ StopBegin
    \/ AudioBegin
    \/ BcSendDone
    \/ \E w \in Sockets : WsAccept(w)
    \/ \E w \in Sockets : WsClose(w)

Spec == Init /\ [][Next]_vars

\* --------------------------------------------------------------- properties
Ids == DOMAIN recordings

Recording(id) == recordings[id].status = "recording"

Completed(id) == recordings[id].status = "completed"

\* the requests whose history is visible: those in progress and the last one
\* that finished
Requests == task \cup {last}

\* C1: in every reachable state at most one session has status Recording.
C1_SingleRecording == Cardinality({ id \in Ids : Recording(id) }) <= 1

\* a stop_recording that bound `recording` to id has not returned yet
StopInProgress(id) == \E r \in task : r.kind = "stop" /\ r.rec = id

\* C2: once a session is Completed no step changes its audio_data while the
\* stop request that completed it is still in progress (flushing, writing the
\* file or broadcasting).
C2_FrozenAfterCompleted ==
    [][ \A id \in Ids :
          (Completed(id) /\ StopInProgress(id))
              => recordings'[id].audio_data = recordings[id].audio_data
      ]_vars

C4_TriggerIffThreshold ==
    \A r \in Requests :
        (r.kind = "audio" /\ r.lenAfter # None)
            => r.tries = (IF r.lenAfter >= 96000 THEN 1 ELSE 0)

\* C4 witness: a request whose append brought the pending buffer to exactly
\* 96,000 bytes has finished, having made its attempt.
C4_Witness == last.kind = "audio" /\ last.lenAfter = 96000 /\ last.tries = 1

\* C5: when a transcription attempt has ended, either it has appended exactly
\* one transcript and the pending buffer is empty, or it has appended none and
\* transcripts and pending buffer are what they were when it began.
C5_AttemptIsAtomic ==
    \A r \in Requests :
        r.ended => \/ r.added = 1 /\ r.buf1 = << >>
                   \/ r.added = 0 /\ r.tr1 = r.tr0 /\ r.buf1 = r.buf0

\* the forced attempts a stop owes to the pending buffer it found
Owed(r) == IF r.pending0 # << >> THEN 1 ELSE 0

C7_StopIsOneSession ==
    (last.kind = "stop" /\ last.resp.ok)
        => /\ last.resp.recording_id = last.entry
           /\ last.stopmsg = last.entry
           /\ last.rec = last.entry
           /\ last.wroteOf = last.entry
           /\ last.wrote = FinalFileName(last.entry)
           /\ last.endcur = None

\* C8: the file of every session whose stop has returned holds exactly the
\* session's audio_data.
C8_FileHoldsAudio ==
    \A id \in finalized :
        [name |-> recordings[id].filename,
         frames |-> recordings[id].audio_data] \in files

\* client operation n is a stop_recording
IsStop(r, n) == r.kind = "stop" /\ r.n = n

\* C9: a stop request issued when no session is current answers
\* {ok: false, error: "No active recording"} in that same step and changes
\* nothing: no session, pointer, file, attempt, subscriber or coroutine
\* changes, so nothing is created, written, transcribed or broadcast.
C9_StopWithoutSession ==
    [][ ( /\ current_recording_id = None
          /\ nreq' = nreq + 1
          /\ \E r \in task' \cup {last'} : IsStop(r, nreq') )
        => /\ IsStop(last', nreq')
           /\ ~last'.resp.ok
           /\ last'.resp.error = "No active recording"
           /\ UNCHANGED << recordings, current_recording_id, files, temp_files,
                           appended, attempts, finalized, active_websockets,
                           task >>
      ]_vars

\* C9 witness: after a session has been stopped, a further stop has been
\* refused.
C9_Witness ==
    /\ last.kind = "stop"
    /\ last.resp.error = "No active recording"
    /\ finalized # {}

\* C10: an audio request that found no current session and created one
\* reaches its append with that session still current, appends to it and
\* returns ok.
C10_AutoStartAppends ==
    \A r \in Requests :
        (r.kind = "audio" /\ r.created # None)
            => /\ r.at106 \in {<< >>, << r.created >>}
               /\ r.pc = "done" => (r.resp.ok /\ r.rec = r.created)

\* the send a request was suspended in has completed in this step
Resumed(tk) == tk \in task /\ tk.pc = "bc_send" /\ tk \notin task'

\* the request of tk after the step
After(tk) == CHOOSE r \in task' \cup {last'} : r.n = tk.n

\* the broadcast tk was suspended in has ended in this step (the next
\* broadcast of a request is made at another site)
BroadcastEnds(tk) ==
    /\ Resumed(tk)
    /\ ~(After(tk).pc = "bc_send" /\ After(tk).site = tk.site)

\* ... with RuntimeError
BroadcastRaises(tk) == After(tk).raises # tk.raises

\* the sockets whose send has raised, and has returned, in the broadcast of tk
\* by the end of the step
Failed(tk) == tk.bc.disc \cup (IF client'[tk.bc.ws] THEN {} ELSE {tk.bc.ws})

Got(tk) == tk.bc.seen \ Failed(tk)

\* C11: a broadcast in which sends have failed ends without raising an
\* exception, and every subscriber that was live when it began and is still in
\* the set either got the event or had its own send fail.
C11_DeliversDespiteFailures ==
    [][ \A tk \in task :
          (BroadcastEnds(tk) /\ Failed(tk) # {})
              => /\ ~BroadcastRaises(tk)
                 /\ (tk.bc.init \cap active_websockets)
                        \subseteq (Got(tk) \cup Failed(tk))
      ]_vars

\* C12: the list returned by list_recordings has exactly one entry per session
\* of the store, each with the session's fields, and is ordered by start_time
\* descending, whatever the statuses of the sessions.
C12_ListNewestFirst ==
    last.kind = "list"
        => LET r == last.listing
           IN /\ Len(r) = Len(recordings)
              /\ \A id \in Ids : \E i \in DOMAIN r : r[i].id = id
              /\ \A i \in DOMAIN r : r[i] = ListEntry(r[i].id, recordings[r[i].id])
              /\ \A i, j \in DOMAIN r :
                     i < j => r[i].start_time >= r[j].start_time

\* C12 witness: a store of three sessions of both statuses, neither in
\* ascending nor in descending order of start_time, has been listed.
C12_Witness ==
    /\ last.kind = "list"
    /\ Len(last.listing) = 3
    /\ \E i, j \in Ids : Recording(i) /\ Completed(j)
    /\ recordings[1].start_time < recordings[2].start_time
    /\ recordings[3].start_time < recordings[2].start_time

\* C13: once a session is Completed, and its stop request is still in progress
\* or has returned, no step assigns its status, end_time or filename again:
\* end_time keeps its value, the status stays Completed and a filename once
\* set stays.
C13_FinalizedOnce ==
    [][ \A id \in Ids :
          (Completed(id) /\ (StopInProgress(id) \/ id \in finalized))
              => /\ recordings'[id].status = "completed"
                 /\ recordings'[id].end_time = recordings[id].end_time
                 /\ recordings[id].filename # NoFile
                        => recordings'[id].filename = recordings[id].filename
      ]_vars

\* the requests whose transcription of session id has begun (the buffer was
\* read at line 133) and has not ended
Transcribing(id) == { r \in task : r.rid = id /\ r.tries > 0 /\ ~r.ended }

\* C14: in every reachable state at most one transcription of a session is in
\* progress.
C14_OneTranscriptionAtATime ==
    \A id \in Ids : Cardinality(Transcribing(id)) <= 1

RECURSIVE Windows(_)
\* the audio of the successful transcriptions of a session, in transcript
\* order
Windows(transcripts) ==
    IF transcripts = << >> THEN << >>
    ELSE Head(transcripts).text \o Windows(Tail(transcripts))

\* C15: for every session with no transcription in progress, the windows of
\* its successful transcriptions followed by its pending buffer are its
\* audio_data.
C15_TranscribedOrPending ==
    \A id \in Ids :
        Transcribing(id) = {}
            => Windows(recordings[id].transcripts)
                   \o recordings[id].transcription_buffer
               = recordings[id].audio_data

\* C16: a broadcast during which active_websockets has changed (a subscriber
\* was added or removed while it was suspended in a send) ends without raising
\* an exception and has attempted the send to every subscriber that was live
\* when it began and still is.
C16_ToleratesSetChange ==
    [][ \A tk \in task :
          (BroadcastEnds(tk) /\ active_websockets # tk.bc.init)
              => /\ ~BroadcastRaises(tk)
                 /\ (tk.bc.init \cap active_websockets) \subseteq tk.bc.seen
      ]_vars

\* C17: a stop request that found a session current ends with that session
\* Completed and no session current, whatever its transcription and its file
\* write did, and it has attempted the file write also when its forced
\* transcription failed.
C17_StopAlwaysTerminal ==
    (last.kind = "stop" /\ last.entry # None)
        => /\ Completed(last.entry)
           /\ last.endcur = None
           /\ (last.tries = 1 /\ last.added = 0) => last.wtried

C19_NoClipLeftBehind == temp_files \subseteq { r.temp : r \in task }

\* C20: the step in which a broadcast completes leaves as live set the set it
\* found minus the subscribers whose send failed during that broadcast: each
\* of them is removed, and nobody else is.
C20_PrunesExactlyFailed ==
    [][ \A tk \in task :
          (BroadcastEnds(tk) /\ ~BroadcastRaises(tk))
             => active_websockets' = active_websockets \ Failed(tk) ]_vars

\* C20 witness: a start request has finished without error after its
\* broadcast went to two subscribers; the one whose send failed is out of the
\* live set although its connection handler has not run, the other is in it.
C20_Witness ==
    /\ task = {} /\ nreq = 3
    /\ last.kind = "start" /\ last.raises = 0 /\ last.resp # ErrorResp
    /\ \E w, v \in Sockets :
          /\ v < w    \* v was accepted before w, so the broadcast found both
          /\ sock[w] = "open" /\ ~client[w] /\ w \notin active_websockets
          /\ sock[v] = "open" /\ client[v] /\ v \in active_websockets

\* C21: when the connection handler of a subscriber that a broadcast has
\* already pruned (its connection is open, it is not in the live set) ends,
\* it ends without an error and the live set stays as it was.
C21_UnsubscribeAfterPruneIsNoOp ==
    [][ \A w \in Sockets :
          (sock[w] = "open" /\ w \notin active_websockets /\ sock'[w] # "open")
             => /\ sock'[w] = "closed"
                /\ active_websockets' = active_websockets ]_vars

====
